---- MODULE Spec2Model ----
(***************************************************************************)
(* A model of the XVideos AstrBot plugin:                                  *)
(*   - utils/cache_manager.py  CacheManager (file backed, TTL by mtime)    *)
(*   - utils/xvideos_client.py XVideosClient.get_video_info and its URL    *)
(*                             fallback, search_videos                     *)
(*   - main.py                 the xv_info / xv_search command handlers    *)
(*                                                                         *)
(* The specifications share the state:                                     *)
(*   SpecCache   concurrent callers of one CacheManager                    *)
(*   SpecStore   get, set and set_ttl on a store whose files get damaged   *)
(*   SpecFetch   one XVideosClient.get_video_info call, request by request *)
(*   SpecSearch  one XVideosClient.search_videos call                      *)
(*   SpecSession concurrent tasks on the HTTP session of one client        *)
(*   Spec        concurrent xv_info / xv_search handlers over the cache    *)
(*   SpecParse   the parsers of the client applied to one piece of markup  *)
(*   SpecReply   concurrent handlers up to the reply, with thumbnails,     *)
(*               temporary files and the exceptions of their calls         *)
(***************************************************************************)
EXTENDS Integers, Sequences, FiniteSets, TLC

VARIABLES
    now,        \* the wall clock, in seconds (datetime.now())
    ttl,        \* CacheManager.ttl
    files,      \* the cache directory: path -> file
    lock,       \* CacheManager.lock: 0 when free, else the holder
    cpc,        \* cache caller -> where it is in its call
    cop,        \* cache caller -> the call it makes
    cres,       \* cache caller -> what its last call returned
    setAt,      \* history: key -> time of the last completed set, -1 if none
    fresh,      \* history: <<>> or <<the set that was the last change of the store>>
    fpc,        \* XVideosClient.get_video_info: where the call is
    fid,        \* its video_id argument
    fidx,       \* _try_alternative_urls: the index of the next URL form
    reqLog,     \* history: the requests the call has issued, with their outcomes
    fresult,    \* what the call returned or raised
    spc,        \* XVideosClient.search_videos: where the call is
    slimit,     \* its max_results argument
    shtml,      \* the thumb-block divs of the page it received, in source order
    sresult,    \* what the call returned or raised
    session,    \* XVideosClient.session: 0 (None) or the ClientSession it refers to
    sessOpen,   \* the ClientSessions created and not closed
    made,       \* history: how many ClientSessions have been created
    kpc,        \* client task -> where it is in its call of the client
    kop,        \* client task -> the call it makes
    kon,        \* client task -> the session its request or its close runs on
    kreq,       \* history: client task -> how its last request was issued
    cacheOn,    \* Main.cache_manager is not None (config cache_enabled)
    pc,         \* command handler task -> where it is
    cmd,        \* task -> "info" (xv_info), "search" (xv_search) or "none"
    arg,        \* task -> its video_id (after line 273) / query
    given,      \* history: task -> the video_id / query the command came with
    cacheKey,   \* task -> its cache_key
    info,       \* task -> its video_info / results
    hit,        \* task -> the cache answered
    sent,       \* history: task -> upstream calls this request has made
    wrote,      \* history: task -> this request has stored into the cache
    reply,      \* task -> what the handler yielded
    storedAt,   \* history: cache key -> time of the last store, -1 if none
    lastVal,    \* history: cache key -> <<>> or <<the value last stored>>
    lastWriter, \* history: cache key -> the task that stored last, 0 if none
    firstAt,    \* history: cache key -> time of the store that created the entry
    firstVal,   \* history: cache key -> <<>> or <<the value that store wrote>>
    tempFiles,  \* the files in Main.temp_dir
    lastSent,   \* Main.last_sent_files (file order and repeats left out)
    chain,      \* task -> the image files in the message chain it is building
    todo,       \* task -> the thumbnail downloads it still has to await
    lost,       \* history: task -> the images of its chain that were gone when it yielded
    yields,     \* history: task -> how many replies this request has yielded
    ppc,        \* the parsers: what has been applied
    phtml,      \* the markup given to the parser
    pout        \* what the parser, and the formatter after it, returned

storeVars == <<now, ttl, files>>
callerVars == <<lock, cpc, cop, cres, setAt, fresh>>
cacheVars == <<now, ttl, files, lock, cpc, cop, cres, setAt, fresh>>
searchVars == <<spc, slimit, shtml, sresult>>
sessVars == <<session, sessOpen, made, kpc, kop, kon, kreq>>
fetchVars == <<fpc, fid, fidx, reqLog, fresult, spc, slimit, shtml, sresult,
               session, sessOpen, made, kpc, kop, kon, kreq>>
taskVars == <<pc, cmd, arg, given, cacheKey, info, hit, sent, wrote, reply>>
histVars == <<storedAt, lastVal, lastWriter, firstAt, firstVal>>
tempVars == <<tempFiles, lastSent, chain, todo, lost, yields>>
parseVars == <<ppc, phtml, pout>>
lookupVars == <<cacheOn, pc, cmd, arg, given, cacheKey, info, hit, sent, wrote, reply,
                storedAt, lastVal, lastWriter, firstAt, firstVal,
                tempFiles, lastSent, chain, todo, lost, yields, ppc, phtml, pout>>
vars == <<now, ttl, files, lock, cpc, cop, cres, setAt, fresh,
          fpc, fid, fidx, reqLog, fresult, spc, slimit, shtml, sresult,
          session, sessOpen, made, kpc, kop, kon, kreq,
          cacheOn, pc, cmd, arg, given, cacheKey, info, hit, sent, wrote, reply,
          storedAt, lastVal, lastWriter, firstAt, firstVal,
          tempFiles, lastSent, chain, todo, lost, yields, ppc, phtml, pout>>

(***************************************************************************)
(* Bounds                                                                  *)
(***************************************************************************)
MaxTime == 1
MaxTtl == 1
MaxDivs == 4
MaxLimit == 3
MaxSessions == 3

Times == 0..MaxTime
Ttls == 0..MaxTtl
\* the concurrent tasks that call the cache store
Callers == {1, 2}

(***************************************************************************)
(* JSON values. The plugin caches a video record (a dict that always has   *)
(* the 'url' entry) or a list of search items (possibly empty).            *)
(***************************************************************************)
JNull == [t |-> "null", v |-> <<>>]
JDict(body) == [t |-> "dict", v |-> body]
JList(items) == [t |-> "list", v |-> items]

\* Python truthiness of a JSON value: None, {} and [] are falsy.
Truthy(x) == x.t # "null" /\ x.v # <<>>

CValues == {JDict(<<"r1">>), JList(<<>>)}
CKeys == {"k1", "k2"}

(***************************************************************************)
(* Files. A file holds text: empty (just opened for writing) or a JSON     *)
(* document; data is <<>> or <<the decoded document>>.                     *)
(***************************************************************************)
EmptyText == [form |-> "empty", data |-> <<>>]
NoFile == [exists |-> FALSE, content |-> EmptyText, mtime |-> 0]

\* json.dump(data, f): the text of a document
JsonDump(data) == [form |-> "json", data |-> <<data>>]

\* Text that no set wrote. Garbage: text that is no JSON document (cut short,
\* overwritten). NonDict: a JSON document that is not an object ([], "x", 3,
\* null). NoValueKey: a JSON object without the 'value' entry. BadBytes: bytes
\* that are not UTF-8.
Garbage == [form |-> "garbage", data |-> <<>>]
NonDict == [form |-> "nondict", data |-> <<>>]
NoValueKey == [form |-> "novalue", data |-> <<>>]
BadBytes == [form |-> "badbytes", data |-> <<>>]
DamagedTexts == {Garbage, NonDict, NoValueKey, BadBytes}

\* json.load(f): the document, or JSONDecodeError on text that is no document
\* (err "decode"), or UnicodeDecodeError from the read of the file (err
\* "unicode"); dict: the document is an object
JsonLoad(content) ==
    IF content.form = "json"
    THEN [ok |-> TRUE, err |-> "none", dict |-> TRUE, data |-> content.data]
    ELSE IF content.form = "novalue"
    THEN [ok |-> TRUE, err |-> "none", dict |-> TRUE, data |-> <<>>]
    ELSE IF content.form = "nondict"
    THEN [ok |-> TRUE, err |-> "none", dict |-> FALSE, data |-> <<>>]
    ELSE IF content.form = "badbytes"
    THEN [ok |-> FALSE, err |-> "unicode", dict |-> FALSE, data |-> <<>>]
    ELSE [ok |-> FALSE, err |-> "decode", dict |-> FALSE, data |-> <<>>]

\* _get_cache_key / _get_cache_path: md5 hex of the key, suffixed .json.
\* md5 is taken to be collision free on the keys in use.
CachePath(key) == <<"md5", key, ".json">>

\* cache_dir.glob('*.json')
Glob(fs) == {p \in DOMAIN fs : fs[p].exists}

IsExpiredMutGe(fs, p, t, clock) ==
    IF ~fs[p].exists THEN TRUE ELSE clock >= fs[p].mtime + t

IsExpiredMutStaleTtl(fs, p, t, clock) ==
    IF ~fs[p].exists THEN TRUE ELSE clock > fs[p].mtime

\* _is_expired(cache_path)
IsExpired(fs, p, t, clock) ==
    IF ~fs[p].exists THEN TRUE ELSE clock > fs[p].mtime + t

Unlink(fs, p) == [fs EXCEPT ![p] = NoFile]

GetValueMutFalsy(fs, key, t, clock) ==
    LET p == CachePath(key) IN
    IF IsExpired(fs, p, t, clock) THEN JNull
    ELSE LET r == JsonLoad(fs[p].content) IN
         IF r.ok /\ r.dict /\ r.data # <<>> /\ Truthy(r.data[1].value)
         THEN r.data[1].value ELSE JNull

\* the value CacheManager.get returns (JNull is Python's None):
\* data.get('value') of the document, None after the exceptions caught
GetValue(fs, key, t, clock) ==
    LET p == CachePath(key) IN
    IF IsExpired(fs, p, t, clock) THEN JNull
    ELSE LET r == JsonLoad(fs[p].content) IN
         IF r.ok /\ r.dict /\ r.data # <<>> THEN r.data[1].value ELSE JNull

\* CacheManager.get raises: `except (json.JSONDecodeError, IOError)` catches
\* neither the UnicodeDecodeError of the read nor the AttributeError of
\* data.get on a document that is not an object
GetRaises(fs, key, t, clock) ==
    LET p == CachePath(key) IN
    /\ ~IsExpired(fs, p, t, clock)
    /\ LET r == JsonLoad(fs[p].content) IN r.err = "unicode" \/ (r.ok /\ ~r.dict)

\* the directory after CacheManager.get
FilesAfterGet(fs, key, t, clock) ==
    LET p == CachePath(key) IN
    IF IsExpired(fs, p, t, clock) /\ fs[p].exists THEN Unlink(fs, p) ELSE fs

\* open(cache_path, 'w'): the file exists and is empty
FilesAfterOpenW(fs, key, clock) ==
    [fs EXCEPT ![CachePath(key)] =
        [exists |-> TRUE, content |-> EmptyText, mtime |-> clock]]

FilesAfterSetMutKeep(fs, key, value, clock) ==
    IF fs[CachePath(key)].exists THEN fs
    ELSE [fs EXCEPT ![CachePath(key)] =
            [exists |-> TRUE,
             content |-> JsonDump([key |-> key, value |-> value, timestamp |-> clock]),
             mtime |-> clock]]

\* the directory after CacheManager.set has written and closed the file
FilesAfterSet(fs, key, value, clock) ==
    [fs EXCEPT ![CachePath(key)] =
        [exists |-> TRUE,
         content |-> JsonDump([key |-> key, value |-> value, timestamp |-> clock]),
         mtime |-> clock]]

FilesAfterDeleteMutKeep(fs, key) == fs

\* the directory after CacheManager.delete
FilesAfterDelete(fs, key) ==
    IF fs[CachePath(key)].exists THEN Unlink(fs, CachePath(key)) ELSE fs

\* the directory after CacheManager.clear
FilesAfterClear(fs) == [p \in DOMAIN fs |-> NoFile]

ExpiredPathsMutAll(fs, t, clock) == Glob(fs)

\* the files CacheManager.cleanup_expired unlinks, and its count
ExpiredPaths(fs, t, clock) == {p \in Glob(fs) : IsExpired(fs, p, t, clock)}
FilesAfterCleanup(fs, t, clock) ==
    [p \in DOMAIN fs |-> IF p \in ExpiredPaths(fs, t, clock) THEN NoFile ELSE fs[p]]
CleanupCount(fs, t, clock) == Cardinality(ExpiredPaths(fs, t, clock))

(***************************************************************************)
(* SpecCache: callers of one CacheManager. A call waits for the lock,      *)
(* runs its body inside the lock and releases it on return.                *)
(***************************************************************************)
NoOp == [op |-> "none", key |-> "k1", value |-> JNull]
Pending == [kind |-> "pending", value |-> JNull, n |-> 0]
Returned(kind, value, n) == [kind |-> kind, value |-> value, n |-> n]

CacheOps ==
    [op : {"get", "delete"}, key : CKeys, value : {JNull}]
    \cup [op : {"set"}, key : CKeys, value : CValues]
    \cup [op : {"clear", "cleanup"}, key : {"k1"}, value : {JNull}]

InCritical(c) == cpc[c] \in {"cs", "dump"}

\* `async with self.lock` is entered by a caller only when the lock is free
LockFreeMutAlways == TRUE
LockFree == lock = 0

\* the command handlers: the tasks in flight, what they can be given
Tasks == {1, 2}
NoKey == <<>>
NoReply == [kind |-> "none", value |-> JNull]

\* f"video:{video_id}"
VideoKey(id) == <<"video:">> \o id
\* f"search:{query}:{max_results}"
SearchKey(query, n) == <<"search:">> \o query \o <<":", ToString(n)>>

\* config.get("max_results", 10)
MaxResults == 10

TasksIdle ==
    /\ pc = [t \in Tasks |-> "idle"]
    /\ cmd = [t \in Tasks |-> "none"]
    /\ arg = [t \in Tasks |-> <<>>]
    /\ given = [t \in Tasks |-> <<>>]
    /\ cacheKey = [t \in Tasks |-> NoKey]
    /\ info = [t \in Tasks |-> JNull]
    /\ hit = [t \in Tasks |-> FALSE]
    /\ sent = [t \in Tasks |-> 0]
    /\ wrote = [t \in Tasks |-> FALSE]
    /\ reply = [t \in Tasks |-> NoReply]

\* Main.__init__ line 58: no temporary file is recorded; no thumbnail has
\* been downloaded
TempIdle ==
    /\ tempFiles = {}
    /\ lastSent = {}
    /\ chain = [t \in Tasks |-> {}]
    /\ todo = [t \in Tasks |-> 0]
    /\ lost = [t \in Tasks |-> {}]
    /\ yields = [t \in Tasks |-> 0]

\* a Python str, as the sequence of its characters; Blank is whitespace
Blank == " "

\* the dict _parse_video_info starts from (lines 216-227)
EmptyInfo ==
    [url |-> <<>>, title |-> <<>>, thumbnail |-> <<>>, duration |-> <<>>,
     views |-> <<>>, likes |-> <<>>, dislikes |-> <<>>, rating |-> <<>>,
     author |-> <<>>, tags |-> <<>>]

\* the fields _format_video_info shows with a default
ShownFields == {"title", "duration", "views", "likes", "dislikes"}

NoDiv == [link |-> <<>>, p |-> <<>>]
NoMarkup == [page |-> {}, div |-> NoDiv]
NoParse ==
    [info |-> EmptyInfo, lines |-> [f \in ShownFields |-> <<>>],
     tagLine |-> <<>>, title |-> <<>>]

\* no markup has been parsed
ParseIdle ==
    /\ ppc = "idle"
    /\ phtml = NoMarkup
    /\ pout = NoParse

\* no command has been handled
LookupIdle ==
    /\ cacheOn = FALSE
    /\ TasksIdle
    /\ TempIdle
    /\ ParseIdle
    /\ storedAt = <<>>
    /\ lastVal = <<>>
    /\ lastWriter = <<>>
    /\ firstAt = <<>>
    /\ firstVal = <<>>

\* the tasks that call the one XVideosClient
ClientTasks == {1, 2, 3}

\* XVideosClient.__init__: self.session = None, no call made
SessionIdle ==
    /\ session = 0
    /\ sessOpen = {}
    /\ made = 0
    /\ kpc = [t \in ClientTasks |-> "idle"]
    /\ kop = [t \in ClientTasks |-> "none"]
    /\ kon = [t \in ClientTasks |-> 0]
    /\ kreq = [t \in ClientTasks |-> "none"]

\* no search_videos call has been made
NoSearchResult == [kind |-> "none", items |-> <<>>]
SearchIdle ==
    /\ spc = "idle"
    /\ slimit = 0
    /\ shtml = <<>>
    /\ sresult = NoSearchResult

\* no get_video_info call has been made
NoResult == [kind |-> "none", rec |-> <<>>, urls |-> <<>>]
FetchIdle ==
    /\ SearchIdle
    /\ SessionIdle
    /\ fpc = "idle"
    /\ fid = <<>>
    /\ fidx = 0
    /\ reqLog = <<>>
    /\ fresult = NoResult

InitCache ==
    /\ now = 0
    /\ ttl \in Ttls
    /\ files = [p \in {CachePath(k) : k \in CKeys} |-> NoFile]
    /\ lock = 0
    /\ cpc = [c \in Callers |-> "idle"]
    /\ cop = [c \in Callers |-> NoOp]
    /\ cres = [c \in Callers |-> Pending]
    /\ setAt = [k \in CKeys |-> -1]
    /\ fresh = <<>>
    /\ FetchIdle
    /\ LookupIdle

\* a task calls get / set / delete / clear / cleanup_expired and enters
\* `async with self.lock`; it waits while another task holds the lock
Acquire(c, o) ==
    /\ cpc[c] = "idle"
    /\ LockFree
    /\ lock' = c
    /\ cpc' = [cpc EXCEPT ![c] = "cs"]
    /\ cop' = [cop EXCEPT ![c] = o]
    /\ cres' = [cres EXCEPT ![c] = Pending]
    /\ UNCHANGED <<now, ttl, files, setAt, fresh>>
    /\ UNCHANGED <<fetchVars, lookupVars>>

\* the body of get, and the release of the lock
GetBody(c) ==
    /\ cpc[c] = "cs"
    /\ cop[c].op = "get"
    /\ LET k == cop[c].key
           v == GetValue(files, k, ttl, now)
           purged == FilesAfterGet(files, k, ttl, now) # files
       IN /\ files' = FilesAfterGet(files, k, ttl, now)
          /\ cres' = [cres EXCEPT ![c] =
                        IF GetRaises(files, k, ttl, now)
                        THEN Returned("raise", JNull, 0)
                        ELSE IF v = JNull
                        THEN Returned("none", JNull, IF purged THEN 1 ELSE 0)
                        ELSE Returned("value", v, 0)]
          /\ fresh' = IF purged THEN <<>>
                      ELSE IF fresh # <<>> /\ fresh[1].key = k /\ now - fresh[1].at <= ttl
                           THEN <<[fresh[1] EXCEPT !.seen = TRUE]>>
                           ELSE fresh
    /\ lock' = 0
    /\ cpc' = [cpc EXCEPT ![c] = "idle"]
    /\ UNCHANGED <<now, ttl, cop, setAt>>
    /\ UNCHANGED <<fetchVars, lookupVars>>

\* set: open(cache_path, 'w') truncates the file
SetOpen(c) ==
    /\ cpc[c] = "cs"
    /\ cop[c].op = "set"
    /\ files' = FilesAfterOpenW(files, cop[c].key, now)
    /\ cpc' = [cpc EXCEPT ![c] = "dump"]
    /\ fresh' = <<>>
    /\ UNCHANGED <<now, ttl, lock, cop, cres, setAt>>
    /\ UNCHANGED <<fetchVars, lookupVars>>

\* set: json.dump writes the document, the file is closed, the lock released
SetDump(c) ==
    /\ cpc[c] = "dump"
    /\ files' = FilesAfterSet(files, cop[c].key, cop[c].value, now)
    /\ setAt' = [setAt EXCEPT ![cop[c].key] = now]
    /\ fresh' = <<[key |-> cop[c].key, value |-> cop[c].value, at |-> now, seen |-> FALSE]>>
    /\ cres' = [cres EXCEPT ![c] = Returned("ok", JNull, 0)]
    /\ lock' = 0
    /\ cpc' = [cpc EXCEPT ![c] = "idle"]
    /\ UNCHANGED <<now, ttl, cop>>
    /\ UNCHANGED <<fetchVars, lookupVars>>

\* the body of delete
DeleteBody(c) ==
    /\ cpc[c] = "cs"
    /\ cop[c].op = "delete"
    /\ files' = FilesAfterDelete(files, cop[c].key)
    /\ fresh' = <<>>
    /\ cres' = [cres EXCEPT ![c] = Returned("ok", JNull, 0)]
    /\ lock' = 0
    /\ cpc' = [cpc EXCEPT ![c] = "idle"]
    /\ UNCHANGED <<now, ttl, cop, setAt>>
    /\ UNCHANGED <<fetchVars, lookupVars>>

\* the body of clear
ClearBody(c) ==
    /\ cpc[c] = "cs"
    /\ cop[c].op = "clear"
    /\ files' = FilesAfterClear(files)
    /\ fresh' = <<>>
    /\ cres' = [cres EXCEPT ![c] = Returned("ok", JNull, 0)]
    /\ lock' = 0
    /\ cpc' = [cpc EXCEPT ![c] = "idle"]
    /\ UNCHANGED <<now, ttl, cop, setAt>>
    /\ UNCHANGED <<fetchVars, lookupVars>>

\* the body of cleanup_expired
CleanupBody(c) ==
    /\ cpc[c] = "cs"
    /\ cop[c].op = "cleanup"
    /\ files' = FilesAfterCleanup(files, ttl, now)
    /\ fresh' = <<>>
    /\ cres' = [cres EXCEPT ![c] = Returned("count", JNull, CleanupCount(files, ttl, now))]
    /\ lock' = 0
    /\ cpc' = [cpc EXCEPT ![c] = "idle"]
    /\ UNCHANGED <<now, ttl, cop, setAt>>
    /\ UNCHANGED <<fetchVars, lookupVars>>

SetTtlMutClear(t) ==
    /\ t # ttl
    /\ ttl' = t
    /\ files' = FilesAfterClear(files)
    /\ UNCHANGED <<now, lock, cpc, cop, cres, setAt, fresh>>
    /\ UNCHANGED <<fetchVars, lookupVars>>

\* set_ttl(ttl): not under the lock
SetTtl(t) ==
    /\ t # ttl
    /\ ttl' = t
    /\ UNCHANGED <<now, files, lock, cpc, cop, cres, setAt, fresh>>
    /\ UNCHANGED <<fetchVars, lookupVars>>

\* a second passes
TickCache ==
    /\ now < MaxTime
    /\ now' = now + 1
    /\ UNCHANGED <<ttl, files, lock, cpc, cop, cres, setAt, fresh>>
    /\ UNCHANGED <<fetchVars, lookupVars>>

NextCache ==
    \/ \E c \in Callers, o \in CacheOps : Acquire(c, o)
    \/ \E c \in Callers : GetBody(c)
    \/ \E c \in Callers : SetOpen(c)
    \/ \E c \in Callers : SetDump(c)
    \/ \E c \in Callers : DeleteBody(c)
    \/ \E c \in Callers : ClearBody(c)
    \/ \E c \in Callers : CleanupBody(c)
    \/ \E t \in Ttls : SetTtl(t)
    \/ TickCache

SpecCache == InitCache /\ [][NextCache]_vars

(***************************************************************************)
(* SpecStore: one CacheManager whose callers get and set, whose TTL is     *)
(* changed by set_ttl, and whose files can be damaged from outside         *)
(* (a crash in mid-write, another program, the disk).                      *)
(***************************************************************************)
StoreOps == {o \in CacheOps : o.op \in {"get", "set"}}

InitStore ==
    /\ now = 0
    /\ ttl = 0
    /\ files = [p \in {CachePath(k) : k \in CKeys} |-> NoFile]
    /\ lock = 0
    /\ cpc = [c \in Callers |-> "idle"]
    /\ cop = [c \in Callers |-> NoOp]
    /\ cres = [c \in Callers |-> Pending]
    /\ setAt = [k \in CKeys |-> -1]
    /\ fresh = <<>>
    /\ FetchIdle
    /\ LookupIdle

\* the text of the file of a key is replaced while no call is inside the lock;
\* the file keeps its modification time
Damage(k, text) ==
    /\ lock = 0
    /\ files[CachePath(k)].exists
    /\ files[CachePath(k)].content # text
    /\ files' = [files EXCEPT ![CachePath(k)] =
                    [exists |-> TRUE, content |-> text,
                     mtime |-> files[CachePath(k)].mtime]]
    /\ fresh' = <<>>
    /\ UNCHANGED <<now, ttl, lock, cpc, cop, cres, setAt>>
    /\ UNCHANGED <<fetchVars, lookupVars>>

NextStore ==
    \/ \E c \in Callers, o \in StoreOps : Acquire(c, o)
    \/ \E c \in Callers : GetBody(c)
    \/ \E c \in Callers : SetOpen(c)
    \/ \E c \in Callers : SetDump(c)
    \/ \E k \in CKeys, text \in DamagedTexts : Damage(k, text)
    \/ \E t \in Ttls : SetTtl(t)
    \/ TickCache

SpecStore == InitStore /\ [][NextStore]_vars

(***************************************************************************)
(* XVideosClient.get_video_info. Strings are sequences of tokens, so that  *)
(* two URLs are equal exactly when their texts are.                        *)
(***************************************************************************)
RawIds == {<<"a">>, <<".", "a">>, <<".", ".", "a">>}
Pages == {"p1", "p2"}

\* video_id.startswith('.')
StartsWithDot(id) == Len(id) > 0 /\ id[1] = "."

\* video_id[1:] if video_id.startswith('.') else video_id
StripDot(id) == IF StartsWithDot(id) THEN Tail(id) ELSE id

BaseUrl == <<"https://www.xvideos.com">>

\* f"{BASE_URL}/video.{video_id}" of the stripped id
PrimaryUrl(id) == BaseUrl \o <<"/video", ".">> \o StripDot(id)

\* possible_urls of _try_alternative_urls(original_video_id)
PossibleUrls(id) ==
    LET clean == StripDot(id) IN
    << BaseUrl \o <<"/video", ".">> \o clean,
       BaseUrl \o <<"/video", "/", ".">> \o clean,
       BaseUrl \o <<"/video", "/">> \o clean >>

\* What a request can come to. kind: "clienterror" is an aiohttp.ClientError
\* raised by session.get (connection refused, DNS failure), "timeout" the
\* asyncio.TimeoutError of the total timeout, "response" an HTTP answer.
\* body, for a 200: "ok" read and parsed, "readerror" response.text() raised
\* (the connection broke or timed out in the body), "unparsable" the parser
\* raised.
Outcomes ==
    [kind : {"clienterror", "timeout"}, status : {0}, body : {"none"}, page : {"none"}]
    \cup [kind : {"response"}, status : {404, 500}, body : {"none"}, page : {"none"}]
    \cup [kind : {"response"}, status : {200}, body : {"readerror", "unparsable"},
          page : {"none"}]
    \cup [kind : {"response"}, status : {200}, body : {"ok"}, page : Pages]

\* the dict returned: its 'url' and the fields taken from the page
RecordResult(url, page) ==
    [kind |-> "record", rec |-> <<[url |-> url, page |-> page]>>, urls |-> <<>>]
\* an exception other than the not-found one
ErrorResult(kind) == [kind |-> kind, rec |-> <<>>, urls |-> <<>>]

NotFoundUrlsMutLast(id) == <<PossibleUrls(id)[3]>>

\* the URLs listed by the final `raise Exception(... "\n".join(possible_urls))`
NotFoundUrls(id) == PossibleUrls(id)

NotFoundResult(id) == [kind |-> "notfound", rec |-> <<>>, urls |-> NotFoundUrls(id)]

PrimaryDispositionMutNon200(o) ==
    IF o.kind = "clienterror" THEN "requestfailed"
    ELSE IF o.kind = "timeout" THEN "timeout"
    ELSE IF o.status = 200
         THEN (IF o.body = "ok" THEN "record"
               ELSE IF o.body = "readerror" THEN "requestfailed"
               ELSE "parseerror")
    ELSE "fallback"

\* get_video_info, lines 92-115: what the primary request's outcome leads to
PrimaryDisposition(o) ==
    IF o.kind = "clienterror" THEN "requestfailed"
    ELSE IF o.kind = "timeout" THEN "timeout"
    ELSE IF o.status = 200
         THEN (IF o.body = "ok" THEN "record"
               ELSE IF o.body = "readerror" THEN "requestfailed"
               ELSE "parseerror")
    ELSE IF o.status = 404 THEN "fallback"
    ELSE "httperror"

\* _try_alternative_urls, lines 150-164: the loop returns on a 200 whose body
\* was read and parsed; a non-200 status and any exception go to the next URL
FallbackReturns(o) == o.kind = "response" /\ o.status = 200 /\ o.body = "ok"

CacheIdle ==
    /\ now = 0
    /\ ttl = 0
    /\ files = [p \in {CachePath(k) : k \in CKeys} |-> NoFile]
    /\ lock = 0
    /\ cpc = [c \in Callers |-> "idle"]
    /\ cop = [c \in Callers |-> NoOp]
    /\ cres = [c \in Callers |-> Pending]
    /\ setAt = [k \in CKeys |-> -1]
    /\ fresh = <<>>

InitFetch == CacheIdle /\ FetchIdle /\ LookupIdle

NormalizedIdMutKeep(id) == id

\* xv_info line 272-273: the id the handler goes on with
NormalizedId(id) == StripDot(id)

\* xv_info with the cache off: the handler of task 1 is given an id, strips
\* a leading dot (main.py 272-273) and calls get_video_info with what is left
HandlerCall(raw) ==
    /\ fpc = "idle"
    /\ pc[1] = "idle"
    /\ ~cacheOn
    /\ cmd' = [cmd EXCEPT ![1] = "info"]
    /\ given' = [given EXCEPT ![1] = raw]
    /\ arg' = [arg EXCEPT ![1] = NormalizedId(raw)]
    /\ cacheKey' = [cacheKey EXCEPT ![1] = VideoKey(NormalizedId(raw))]
    /\ pc' = [pc EXCEPT ![1] = "fetch"]
    /\ sent' = [sent EXCEPT ![1] = 1]
    /\ fpc' = "primary"
    /\ fid' = NormalizedId(raw)
    /\ UNCHANGED <<fidx, reqLog, fresult>>
    /\ UNCHANGED <<info, hit, wrote, reply, cacheOn, histVars>>
    /\ UNCHANGED <<cacheVars, searchVars, sessVars>>
    /\ UNCHANGED <<tempVars, parseVars>>

\* get_video_info(video_id) is called
FetchCall(id) ==
    /\ fpc = "idle"
    /\ fpc' = "primary"
    /\ fid' = id
    /\ UNCHANGED <<fidx, reqLog, fresult>>
    /\ UNCHANGED <<cacheVars, lookupVars, searchVars, sessVars>>

\* the primary request and what its outcome leads to
PrimaryRequest(o) ==
    /\ fpc = "primary"
    /\ reqLog' = Append(reqLog, [url |-> PrimaryUrl(fid), out |-> o])
    /\ LET d == PrimaryDisposition(o) IN
       IF d = "fallback"
       THEN fpc' = "fallback" /\ fidx' = 1 /\ UNCHANGED fresult
       ELSE /\ fpc' = "done"
            /\ UNCHANGED fidx
            /\ fresult' = IF d = "record" THEN RecordResult(PrimaryUrl(fid), o.page)
                           ELSE ErrorResult(d)
    /\ UNCHANGED fid
    /\ UNCHANGED <<cacheVars, lookupVars, searchVars, sessVars>>

\* one turn of the loop of _try_alternative_urls
FallbackRequest(o) ==
    /\ fpc = "fallback"
    /\ LET url == PossibleUrls(fid)[fidx] IN
       /\ reqLog' = Append(reqLog, [url |-> url, out |-> o])
       /\ IF FallbackReturns(o)
          THEN fpc' = "done" /\ fresult' = RecordResult(url, o.page) /\ UNCHANGED fidx
          ELSE IF fidx < Len(PossibleUrls(fid))
               THEN fidx' = fidx + 1 /\ UNCHANGED <<fpc, fresult>>
               ELSE fpc' = "done" /\ fresult' = NotFoundResult(fid) /\ UNCHANGED fidx
    /\ UNCHANGED fid
    /\ UNCHANGED <<cacheVars, lookupVars, searchVars, sessVars>>

NextFetch ==
    \/ \E id \in RawIds : FetchCall(id)
    \/ \E raw \in RawIds : HandlerCall(raw)
    \/ \E o \in Outcomes : PrimaryRequest(o)
    \/ \E o \in Outcomes : FallbackRequest(o)

SpecFetch == InitFetch /\ [][NextFetch]_vars

(***************************************************************************)
(* XVideosClient.search_videos. A page is the sequence of its               *)
(* div.thumb-block elements: a video block, whose link has '/video' in its *)
(* href, is the number of its place in the page; a block without such a    *)
(* link (no <a>, or a link to a profile or a channel) is 0.                *)
(***************************************************************************)
SearchPages ==
    UNION { { [i \in 1..n |-> IF i \in S THEN i ELSE 0] : S \in SUBSET (1..n) } :
            n \in 0..MaxDivs }
Limits == 0..MaxLimit

\* seq[:m]
PySlice(seq, m) ==
    IF m >= 0
    THEN SubSeq(seq, 1, IF m < Len(seq) THEN m ELSE Len(seq))
    ELSE SubSeq(seq, 1, IF Len(seq) + m > 0 THEN Len(seq) + m ELSE 0)

\* video_info['id'] of a block: '' (falsy) when no '/video' link was found
HasId(div) == div # 0
Item(div) == [id |-> div]

RECURSIVE CollectItems(_)
\* the loop of lines 307-385 over video_divs: an item per block with an id
CollectItems(divs) ==
    IF divs = <<>> THEN <<>>
    ELSE IF HasId(Head(divs))
         THEN <<Item(Head(divs))>> \o CollectItems(Tail(divs))
         ELSE CollectItems(Tail(divs))

\* _parse_search_results(html, max_results)
ParseSearchResults(html, max) ==
    CollectItems(PySlice(html, max))

\* What the request of search_videos can come to: as for get_video_info, with
\* the page received in place of the record page.
SearchOutcomes ==
    [kind : {"clienterror", "timeout"}, status : {0}, body : {"none"}, page : {<<>>}]
    \cup [kind : {"response"}, status : {404, 500}, body : {"none"}, page : {<<>>}]
    \cup [kind : {"response"}, status : {200}, body : {"readerror"}, page : {<<>>}]
    \cup [kind : {"response"}, status : {200}, body : {"ok"}, page : SearchPages]

SearchResults(items) == [kind |-> "results", items |-> items]
SearchError(kind) == [kind |-> kind, items |-> <<>>]

\* search_videos, lines 280-288: ClientError (raised by session.get, by
\* raise_for_status on a status of 400 and above, by response.text()) becomes
\* the search-failed exception; the timeout is not a ClientError
SearchDisposition(o) ==
    IF o.kind = "timeout" THEN "timeout"
    ELSE IF o.kind = "clienterror" THEN "searchfailed"
    ELSE IF o.status >= 400 THEN "searchfailed"
    ELSE IF o.body = "readerror" THEN "searchfailed"
    ELSE "results"

InitSearch == CacheIdle /\ FetchIdle /\ LookupIdle

\* search_videos(query, max_results) is called and sends its request
SearchCall(max) ==
    /\ spc = "idle"
    /\ spc' = "request"
    /\ slimit' = max
    /\ UNCHANGED <<shtml, sresult>>
    /\ UNCHANGED <<fpc, fid, fidx, reqLog, fresult>>
    /\ UNCHANGED <<cacheVars, lookupVars, sessVars>>

\* the request ends; a page received is parsed and the items returned
SearchResponse(o) ==
    /\ spc = "request"
    /\ spc' = "done"
    /\ shtml' = o.page
    /\ sresult' = IF SearchDisposition(o) = "results"
                   THEN SearchResults(ParseSearchResults(o.page, slimit))
                   ELSE SearchError(SearchDisposition(o))
    /\ UNCHANGED slimit
    /\ UNCHANGED <<fpc, fid, fidx, reqLog, fresult>>
    /\ UNCHANGED <<cacheVars, lookupVars, sessVars>>

NextSearch ==
    \/ \E max \in Limits : SearchCall(max)
    \/ \E o \in SearchOutcomes : SearchResponse(o)

SpecSearch == InitSearch /\ [][NextSearch]_vars

(***************************************************************************)
(* The HTTP session of the one XVideosClient, used by several tasks.       *)
(* A task runs until it awaits something that is not ready: a request      *)
(* waits for its answer, and `await self.session.close()` may wait for the *)
(* connections to close. initialize() has no await inside and runs at      *)
(* once, together with the statements up to the request that follows it.   *)
(***************************************************************************)
Requests == {"info", "search", "thumb"}

\* how self.session.get(...) goes on the session s the client refers to:
\* None has no get (AttributeError), a closed session refuses the request
\* (RuntimeError: Session is closed), an open one sends it
Issue(s, open) ==
    IF s = 0 THEN "missing" ELSE IF s \notin open THEN "closed" ELSE "sent"

\* close(): `if self.session:` then `await self.session.close()`, which marks
\* the session closed at once and may suspend the task before close() goes
\* on to `self.session = None`
CloseCall(t, suspends) ==
    /\ kpc[t] = "idle"
    /\ kop' = [kop EXCEPT ![t] = "close"]
    /\ kreq' = [kreq EXCEPT ![t] = "none"]
    /\ IF session = 0
       THEN UNCHANGED <<session, sessOpen, kpc, kon>>
       ELSE /\ sessOpen' = sessOpen \ {session}
            /\ kon' = [kon EXCEPT ![t] = session]
            /\ IF suspends
               THEN kpc' = [kpc EXCEPT ![t] = "closing"] /\ UNCHANGED session
               ELSE session' = 0 /\ UNCHANGED kpc
    /\ UNCHANGED made
    /\ UNCHANGED <<fpc, fid, fidx, reqLog, fresult, searchVars>>
    /\ UNCHANGED <<cacheVars, lookupVars>>

\* close() resumes after the await: self.session = None
CloseResume(t) ==
    /\ kpc[t] = "closing"
    /\ session' = 0
    /\ kpc' = [kpc EXCEPT ![t] = "idle"]
    /\ UNCHANGED <<sessOpen, made, kop, kon, kreq>>
    /\ UNCHANGED <<fpc, fid, fidx, reqLog, fresult, searchVars>>
    /\ UNCHANGED <<cacheVars, lookupVars>>

\* get_video_info / search_videos / download_thumbnail: await
\* self.initialize(), which creates a session when self.session is None, and
\* then the request on self.session
RequestCall(t, op) ==
    /\ kpc[t] = "idle"
    /\ session = 0 => made < MaxSessions
    /\ LET s == IF session = 0 THEN made + 1 ELSE session
           open == IF session = 0 THEN sessOpen \cup {made + 1} ELSE sessOpen
       IN /\ session' = s
          /\ sessOpen' = open
          /\ made' = IF session = 0 THEN made + 1 ELSE made
          /\ kon' = [kon EXCEPT ![t] = s]
          /\ kreq' = [kreq EXCEPT ![t] = Issue(s, open)]
          /\ kpc' = [kpc EXCEPT ![t] = IF Issue(s, open) = "sent" THEN "primary" ELSE "idle"]
    /\ kop' = [kop EXCEPT ![t] = op]
    /\ UNCHANGED <<fpc, fid, fidx, reqLog, fresult, searchVars>>
    /\ UNCHANGED <<cacheVars, lookupVars>>

\* the place in the loop of _try_alternative_urls after the place at
AltAfter(at) == IF at = "primary" THEN "alt1" ELSE IF at = "alt1" THEN "alt2" ELSE "alt3"

\* The request of a task ends. ends: the call returns or raises. Otherwise
\* (get_video_info only) the primary request was answered 404, or an
\* alternative URL failed and another is left: the next alternative URL is
\* requested on self.session as it is then, with no initialize() before it;
\* an exception of that request goes to the URL after it.
RequestEnds(t, ends) ==
    /\ kpc[t] \in {"primary", "alt1", "alt2", "alt3"}
    /\ ~ends => (kop[t] = "info" /\ kpc[t] # "alt3")
    /\ IF ends
       THEN /\ kpc' = [kpc EXCEPT ![t] = "idle"]
            /\ UNCHANGED <<kon, kreq>>
       ELSE /\ kreq' = [kreq EXCEPT ![t] = Issue(session, sessOpen)]
            /\ kon' = [kon EXCEPT ![t] = session]
            /\ kpc' = [kpc EXCEPT ![t] =
                        IF Issue(session, sessOpen) = "sent" THEN AltAfter(kpc[t])
                        ELSE "idle"]
    /\ UNCHANGED <<session, sessOpen, made, kop>>
    /\ UNCHANGED <<fpc, fid, fidx, reqLog, fresult, searchVars>>
    /\ UNCHANGED <<cacheVars, lookupVars>>

InitSession == CacheIdle /\ FetchIdle /\ LookupIdle

NextSession ==
    \/ \E t \in ClientTasks, suspends \in BOOLEAN : CloseCall(t, suspends)
    \/ \E t \in ClientTasks : CloseResume(t)
    \/ \E t \in ClientTasks, op \in Requests : RequestCall(t, op)
    \/ \E t \in ClientTasks, ends \in BOOLEAN : RequestEnds(t, ends)

SpecSession == InitSession /\ [][NextSession]_vars

(***************************************************************************)
(* Spec: the xv_info and xv_search command handlers of main.py, several in *)
(* flight. A handler runs until it awaits the network, so its steps are:   *)
(* the entry checks, the cache read, the arrival of the upstream answer,   *)
(* the cache write; the step that ends the handler builds the reply. The   *)
(* cache calls are the CacheManager operations above.                      *)
(***************************************************************************)
InfoArgs == {<<>>, <<"a">>, <<".", "a">>}
SearchArgs == {<<>>, <<"q">>}
Commands == ({"info"} \X InfoArgs) \cup ({"search"} \X SearchArgs)

\* cache_key of a command
KeyOf(c, a) == IF c = "info" THEN VideoKey(NormalizedId(a)) ELSE SearchKey(a, MaxResults)

LKeys == {KeyOf(ca[1], ca[2]) : ca \in {x \in Commands : x[2] # <<>>}}

\* what XVideosClient.get_video_info / search_videos can come to: a record,
\* a result list (possibly empty), or an exception
UpstreamAnswers(c) ==
    [ok : {FALSE}, value : {JNull}]
    \cup [ok : {TRUE},
          value : IF c = "info" THEN {JDict(<<"r1">>), JDict(<<"r2">>)}
                  ELSE {JList(<<>>), JList(<<"i1">>)}]

Usage == [kind |-> "usage", value |-> JNull]
Failure == [kind |-> "failure", value |-> JNull]
NotFoundText == [kind |-> "notfound", value |-> JNull]
Chain(v) == [kind |-> "chain", value |-> v]

\* lines 212-248 / 289-304: the reply built from video_info / results: the
\* not-found text for an empty search result, else the message chain
ReplyFor(c, v) == IF c = "search" /\ ~Truthy(v) THEN NotFoundText ELSE Chain(v)

AfterFetchMutStoreAnyway(ok, on) == IF on THEN "store" ELSE "done"

\* where a handler goes when the upstream call has returned (ok) or raised:
\* the except clause of the handler, or on to cache_manager.set / the reply
AfterFetch(ok, on) ==
    IF ~ok THEN "done" ELSE IF on THEN "store" ELSE "done"

CacheHitMutNever(cached) == FALSE

\* `if cached_info:` / `if cached_results:`
CacheHit(cached) == Truthy(cached)

Init ==
    /\ now = 0
    /\ ttl \in Ttls
    /\ files = [p \in {CachePath(k) : k \in LKeys} |-> NoFile]
    /\ lock = 0
    /\ cpc = [c \in Callers |-> "idle"]
    /\ cop = [c \in Callers |-> NoOp]
    /\ cres = [c \in Callers |-> Pending]
    /\ setAt = [k \in CKeys |-> -1]
    /\ fresh = <<>>
    /\ FetchIdle
    /\ cacheOn \in BOOLEAN
    /\ TasksIdle
    /\ TempIdle
    /\ ParseIdle
    /\ storedAt = [k \in LKeys |-> -1]
    /\ lastVal = [k \in LKeys |-> <<>>]
    /\ lastWriter = [k \in LKeys |-> 0]
    /\ firstAt = [k \in LKeys |-> -1]
    /\ firstVal = [k \in LKeys |-> <<>>]

\* a command arrives: the empty-argument check, the id normalization, the
\* cache key; without a cache manager the upstream call is made at once
Begin(t, c, a) ==
    /\ pc[t] = "idle"
    /\ cmd' = [cmd EXCEPT ![t] = c]
    /\ IF a = <<>>
       THEN /\ pc' = [pc EXCEPT ![t] = "done"]
            /\ reply' = [reply EXCEPT ![t] = Usage]
            /\ UNCHANGED <<arg, given, cacheKey, sent>>
       ELSE /\ arg' = [arg EXCEPT ![t] = IF c = "info" THEN NormalizedId(a) ELSE a]
            /\ given' = [given EXCEPT ![t] = a]
            /\ cacheKey' = [cacheKey EXCEPT ![t] = KeyOf(c, a)]
            /\ pc' = [pc EXCEPT ![t] = IF cacheOn THEN "lookup" ELSE "fetch"]
            /\ sent' = [sent EXCEPT ![t] = IF cacheOn THEN 0 ELSE 1]
            /\ UNCHANGED reply
    /\ UNCHANGED <<info, hit, wrote, cacheOn, histVars>>
    /\ UNCHANGED <<storeVars, callerVars, fetchVars>>
    /\ UNCHANGED <<tempVars, parseVars>>

\* await self.cache_manager.get(cache_key), and the test of what it returned
CacheLookup(t) ==
    /\ pc[t] = "lookup"
    /\ LET k == cacheKey[t]
           cached == GetValue(files, k, ttl, now)
       IN /\ files' = FilesAfterGet(files, k, ttl, now)
          /\ IF files' # files
             THEN \* the expired entry is gone, and its history with it
                  /\ lastWriter' = [lastWriter EXCEPT ![k] = 0]
                  /\ storedAt' = [storedAt EXCEPT ![k] = -1]
                  /\ lastVal' = [lastVal EXCEPT ![k] = <<>>]
                  /\ firstAt' = [firstAt EXCEPT ![k] = -1]
                  /\ firstVal' = [firstVal EXCEPT ![k] = <<>>]
             ELSE UNCHANGED histVars
          /\ IF CacheHit(cached)
             THEN /\ info' = [info EXCEPT ![t] = cached]
                  /\ hit' = [hit EXCEPT ![t] = TRUE]
                  /\ reply' = [reply EXCEPT ![t] = ReplyFor(cmd[t], cached)]
                  /\ pc' = [pc EXCEPT ![t] = "done"]
                  /\ UNCHANGED sent
             ELSE /\ pc' = [pc EXCEPT ![t] = "fetch"]
                  /\ sent' = [sent EXCEPT ![t] = 1]
                  /\ UNCHANGED <<info, hit, reply>>
    /\ UNCHANGED <<cmd, arg, given, cacheKey, wrote, cacheOn>>
    /\ UNCHANGED <<now, ttl, callerVars, fetchVars>>
    /\ UNCHANGED <<tempVars, parseVars>>

\* the upstream call returns a value or raises
Fetch(t, o) ==
    /\ pc[t] = "fetch"
    /\ pc' = [pc EXCEPT ![t] = AfterFetch(o.ok, cacheOn)]
    /\ info' = IF o.ok THEN [info EXCEPT ![t] = o.value] ELSE info
    /\ reply' = IF AfterFetch(o.ok, cacheOn) # "done" THEN reply
                ELSE IF o.ok THEN [reply EXCEPT ![t] = ReplyFor(cmd[t], o.value)]
                ELSE [reply EXCEPT ![t] = Failure]
    /\ UNCHANGED <<cmd, arg, given, cacheKey, hit, sent, wrote, cacheOn, histVars>>
    /\ UNCHANGED <<storeVars, callerVars, fetchVars>>
    /\ UNCHANGED <<tempVars, parseVars>>

\* await self.cache_manager.set(cache_key, video_info / results)
CacheStore(t) ==
    /\ pc[t] = "store"
    /\ LET k == cacheKey[t]
           gone == storedAt[k] < 0 \/ now - storedAt[k] > ttl
       IN /\ files' = FilesAfterSet(files, k, info[t], now)
          /\ storedAt' = [storedAt EXCEPT ![k] = now]
          /\ lastVal' = [lastVal EXCEPT ![k] = <<info[t]>>]
          /\ lastWriter' = [lastWriter EXCEPT ![k] = t]
          /\ firstAt' = IF gone THEN [firstAt EXCEPT ![k] = now] ELSE firstAt
          /\ firstVal' = IF gone THEN [firstVal EXCEPT ![k] = <<info[t]>>] ELSE firstVal
    /\ wrote' = [wrote EXCEPT ![t] = TRUE]
    /\ reply' = [reply EXCEPT ![t] = ReplyFor(cmd[t], info[t])]
    /\ pc' = [pc EXCEPT ![t] = "done"]
    /\ UNCHANGED <<cmd, arg, given, cacheKey, info, hit, sent, cacheOn>>
    /\ UNCHANGED <<now, ttl, callerVars, fetchVars>>
    /\ UNCHANGED <<tempVars, parseVars>>

\* the handler has ended; the task is free for the next command
Finish(t) ==
    /\ pc[t] = "done"
    /\ pc' = [pc EXCEPT ![t] = "idle"]
    /\ cmd' = [cmd EXCEPT ![t] = "none"]
    /\ arg' = [arg EXCEPT ![t] = <<>>]
    /\ given' = [given EXCEPT ![t] = <<>>]
    /\ cacheKey' = [cacheKey EXCEPT ![t] = NoKey]
    /\ info' = [info EXCEPT ![t] = JNull]
    /\ hit' = [hit EXCEPT ![t] = FALSE]
    /\ sent' = [sent EXCEPT ![t] = 0]
    /\ wrote' = [wrote EXCEPT ![t] = FALSE]
    /\ reply' = [reply EXCEPT ![t] = NoReply]
    /\ UNCHANGED <<cacheOn, histVars>>
    /\ UNCHANGED <<storeVars, callerVars, fetchVars>>
    /\ UNCHANGED <<tempVars, parseVars>>

\* a second passes
Tick ==
    /\ now < MaxTime
    /\ now' = now + 1
    /\ UNCHANGED <<ttl, files, callerVars, fetchVars, lookupVars>>

Next ==
    \/ \E t \in Tasks, ca \in Commands : Begin(t, ca[1], ca[2])
    \/ \E t \in Tasks : CacheLookup(t)
    \/ \E t \in Tasks : \E o \in UpstreamAnswers(cmd[t]) : Fetch(t, o)
    \/ \E t \in Tasks : CacheStore(t)
    \/ \E t \in Tasks : Finish(t)
    \/ Tick

Spec == Init /\ [][Next]_vars

(***************************************************************************)
(* SpecParse: the parsers of the client applied to one piece of markup:    *)
(* _parse_video_info with Main._format_video_info after it, and the title  *)
(* _parse_search_results gives to one thumb-block div                      *)
(***************************************************************************)
RECURSIVE LStrip(_)
LStrip(s) == IF s # <<>> /\ Head(s) = Blank THEN LStrip(Tail(s)) ELSE s

RECURSIVE RStrip(_)
RStrip(s) == IF s # <<>> /\ s[Len(s)] = Blank THEN RStrip(SubSeq(s, 1, Len(s) - 1)) ELSE s

\* str.strip()
Strip(s) == RStrip(LStrip(s))

\* the elements of a video page that _parse_video_info looks for; a page is
\* the set of those it has
PageFields == {"title", "thumbnail", "duration", "views", "likes", "dislikes", "tags"}
VideoPages == SUBSET PageFields

\* what the element of a field holds: the content attribute of a meta
\* element, or the text of a span with whitespace around it
RawOf(f) == IF f \in {"title", "thumbnail"} THEN <<f>> ELSE <<Blank, f, Blank>>

PageUrl == <<"u">>

\* _parse_video_info(html, url)
ParseVideoInfo(page, url) ==
    [url |-> url,
     title |-> IF "title" \in page THEN RawOf("title") ELSE <<>>,
     thumbnail |-> IF "thumbnail" \in page THEN RawOf("thumbnail") ELSE <<>>,
     duration |-> IF "duration" \in page THEN Strip(RawOf("duration")) ELSE <<>>,
     views |-> IF "views" \in page THEN Strip(RawOf("views")) ELSE <<>>,
     likes |-> IF "likes" \in page THEN Strip(RawOf("likes")) ELSE <<>>,
     dislikes |-> IF "dislikes" \in page THEN Strip(RawOf("dislikes")) ELSE <<>>,
     rating |-> <<>>,
     author |-> <<>>,
     tags |-> IF "tags" \in page THEN << <<"tag">> >> ELSE <<>>]

\* the default of the .get calls of _format_video_info, '未知' ("unknown")
Unknown == <<"unknown">>

\* dict.get(key, default)
DictGet(d, k, default) == IF k \in DOMAIN d THEN d[k] ELSE default

\* _format_video_info(video_info): the text after each label
FormatLines(video_info) == [f \in ShownFields |-> DictGet(video_info, f, Unknown)]

\* _format_video_info(video_info): the tags shown, none if the line is left out
FormatTagLine(video_info) ==
    IF DictGet(video_info, "tags", <<>>) # <<>>
    THEN SubSeq(video_info.tags, 1, IF Len(video_info.tags) < 10 THEN Len(video_info.tags) ELSE 10)
    ELSE <<>>

\* nothing, or one thing
Opt(S) == {<<>>} \cup {<<x>> : x \in S}

\* a thumb-block div: its first anchor with or without a title attribute, and
\* its p.title with or without a title attribute, with or without an anchor
\* inside, and the text it has beside that anchor
ThumbDivs ==
    [link : Opt([title : Opt({<<>>, <<Blank>>, <<"t1">>})]),
     p : Opt([title : Opt({<<>>, <<Blank>>, <<"t2">>}),
              a : Opt({<<>>, <<Blank>>, <<Blank, "t3">>}),
              rest : {<<>>, <<Blank>>, <<"t4", Blank>>}])]

\* element.get('title', '')
TitleAttr(el) == IF el.title = <<>> THEN <<>> ELSE el.title[1]

\* element.get_text(strip=True) of a p.title
GetTextStripped(el) == (IF el.a = <<>> THEN <<>> ELSE Strip(el.a[1])) \o Strip(el.rest)

TitleOfMutContainerFirst(div) ==
    LET m2 == IF div.p # <<>> THEN TitleAttr(div.p[1]) ELSE <<>>
        m1 == IF m2 = <<>> /\ div.link # <<>> THEN TitleAttr(div.link[1]) ELSE m2
        m3 == IF m1 = <<>> /\ div.p # <<>> /\ div.p[1].a # <<>>
              THEN Strip(div.p[1].a[1]) ELSE m1
    IN IF m3 = <<>> /\ div.p # <<>> THEN GetTextStripped(div.p[1]) ELSE m3

\* _parse_search_results lines 333-362: the title of a div, by four methods,
\* each tried while the title is still empty
TitleOf(div) ==
    LET m1 == IF div.link # <<>> THEN TitleAttr(div.link[1]) ELSE <<>>
        m2 == IF m1 = <<>> /\ div.p # <<>> THEN TitleAttr(div.p[1]) ELSE m1
        m3 == IF m2 = <<>> /\ div.p # <<>> /\ div.p[1].a # <<>>
              THEN Strip(div.p[1].a[1]) ELSE m2
    IN IF m3 = <<>> /\ div.p # <<>> THEN GetTextStripped(div.p[1]) ELSE m3

InitParse == CacheIdle /\ FetchIdle /\ LookupIdle

\* _parse_video_info is given a page
ParseVideoPage(page) ==
    /\ ppc = "idle"
    /\ ppc' = "record"
    /\ phtml' = [page |-> page, div |-> NoDiv]
    /\ pout' = [NoParse EXCEPT !.info = ParseVideoInfo(page, PageUrl)]
    /\ UNCHANGED <<cacheVars, fetchVars>>
    /\ UNCHANGED <<cacheOn, taskVars, histVars, tempVars>>

\* _format_video_info is given the record
FormatVideoInfo ==
    /\ ppc = "record"
    /\ ppc' = "text"
    /\ pout' = [pout EXCEPT !.lines = FormatLines(pout.info),
                            !.tagLine = FormatTagLine(pout.info)]
    /\ UNCHANGED phtml
    /\ UNCHANGED <<cacheVars, fetchVars>>
    /\ UNCHANGED <<cacheOn, taskVars, histVars, tempVars>>

\* the loop body of _parse_search_results is given a div
ParseSearchItem(div) ==
    /\ ppc = "idle"
    /\ ppc' = "item"
    /\ phtml' = [page |-> {}, div |-> div]
    /\ pout' = [NoParse EXCEPT !.title = TitleOf(div)]
    /\ UNCHANGED <<cacheVars, fetchVars>>
    /\ UNCHANGED <<cacheOn, taskVars, histVars, tempVars>>

NextParse ==
    \/ \E page \in VideoPages : ParseVideoPage(page)
    \/ FormatVideoInfo
    \/ \E div \in ThumbDivs : ParseSearchItem(div)

SpecParse == InitParse /\ [][NextParse]_vars

(***************************************************************************)
(* SpecReply: concurrent xv_info / xv_search handlers from the command to  *)
(* the reply, await by await, with the thumbnails they download into       *)
(* temp_dir and the exceptions their calls raise. What the cache and the   *)
(* client answer is an input here. A task runs from one await to the next  *)
(* without switching, so each action is the code between two suspensions.  *)
(***************************************************************************)
MaxItems == 2

\* for i, video in enumerate(results[:5], 1)
ShownResults == 5

\* str(self.temp_dir / f"thumb_{file_hash}.jpg"): one path per thumbnail URL
ThumbPaths == {"thumb_1", "thumb_2"}

ReplyCommands == {<<"info", <<>>>>, <<"info", <<"a">>>>, <<"search", <<"q">>>>}

\* the records and result lists the cache or the client can give
ReplyAnswers(c) ==
    IF c = "info" THEN {JDict(<<"r1">>)}
    ELSE {JList([i \in 1..n |-> ToString(i)]) : n \in 0..MaxItems}

\* the exceptions a call of the handler can raise: cache_manager.get
\* (AttributeError, UnicodeDecodeError on a damaged file), the client
\* (Exception for an HTTP error or a ClientError, TimeoutError, what a parser
\* raises), cache_manager.set (OSError, TypeError)
ErrorsAt(where) ==
    IF where = "lookup" THEN {"AttributeError", "UnicodeDecodeError"}
    ELSE IF where = "fetch" THEN {"Exception", "TimeoutError", "AttributeError"}
    ELSE IF where = "store" THEN {"OSError", "TypeError"}
    ELSE {}

\* the classes derived from Exception
ExceptionClasses ==
    {"Exception", "AttributeError", "UnicodeDecodeError", "TimeoutError", "OSError", "TypeError"}

HandlerCatchesMutNarrow(exc) == exc = "Exception"

\* `except Exception as e:` (lines 250, 306)
HandlerCatches(exc) == exc \in ExceptionClasses

\* the exception left the handler: no reply
Propagated == [kind |-> "raised", value |-> JNull]

\* how many thumbnails the handler may have to download for video_info /
\* results: one per shown item that has a thumbnail URL
ThumbCounts(c, v) ==
    IF c = "info" THEN 0..1
    ELSE 0..(IF Len(v.v) < ShownResults THEN Len(v.v) ELSE ShownResults)

InitReply ==
    /\ CacheIdle
    /\ FetchIdle
    /\ cacheOn \in BOOLEAN
    /\ TasksIdle
    /\ TempIdle
    /\ ParseIdle
    /\ storedAt = <<>>
    /\ lastVal = <<>>
    /\ lastWriter = <<>>
    /\ firstAt = <<>>
    /\ firstVal = <<>>

\* _cleanup_temp_files: the files left in temp_dir
FilesAfterCleanupTemp(fs, recorded) == fs \ recorded

\* lines 212-248 / 289-304 once video_info / results is v and n thumbnails
\* are to be downloaded: the not-found reply, the chain at once when there
\* is nothing to download, else the await of the first download
Respond(t, v, n) ==
    /\ info' = [info EXCEPT ![t] = v]
    /\ IF cmd[t] = "search" /\ ~Truthy(v)
       THEN /\ reply' = [reply EXCEPT ![t] = NotFoundText]
            /\ yields' = [yields EXCEPT ![t] = @ + 1]
            /\ pc' = [pc EXCEPT ![t] = "done"]
            /\ UNCHANGED todo
       ELSE IF n = 0
       THEN /\ reply' = [reply EXCEPT ![t] = Chain(v)]
            /\ yields' = [yields EXCEPT ![t] = @ + 1]
            /\ pc' = [pc EXCEPT ![t] = "done"]
            /\ UNCHANGED todo
       ELSE /\ pc' = [pc EXCEPT ![t] = "thumb"]
            /\ todo' = [todo EXCEPT ![t] = n]
            /\ UNCHANGED <<reply, yields>>
    /\ UNCHANGED <<tempFiles, lastSent, chain, lost>>

\* a command arrives: _cleanup_before_send, the empty-argument check, the id
\* normalization, the cache key, up to the first await
HandlerEnter(t, c, a) ==
    /\ pc[t] = "idle"
    /\ tempFiles' = FilesAfterCleanupTemp(tempFiles, lastSent)
    /\ lastSent' = {}
    /\ cmd' = [cmd EXCEPT ![t] = c]
    /\ IF a = <<>>
       THEN /\ pc' = [pc EXCEPT ![t] = "done"]
            /\ reply' = [reply EXCEPT ![t] = Usage]
            /\ yields' = [yields EXCEPT ![t] = @ + 1]
            /\ UNCHANGED <<arg, given, cacheKey, sent>>
       ELSE /\ arg' = [arg EXCEPT ![t] = IF c = "info" THEN NormalizedId(a) ELSE a]
            /\ given' = [given EXCEPT ![t] = a]
            /\ cacheKey' = [cacheKey EXCEPT ![t] = KeyOf(c, a)]
            /\ pc' = [pc EXCEPT ![t] = IF cacheOn THEN "lookup" ELSE "fetch"]
            /\ sent' = [sent EXCEPT ![t] = IF cacheOn THEN 0 ELSE 1]
            /\ UNCHANGED <<reply, yields>>
    /\ UNCHANGED <<info, hit, wrote, chain, todo, lost>>
    /\ UNCHANGED <<cacheOn, histVars, parseVars>>
    /\ UNCHANGED <<cacheVars, fetchVars>>

\* await self.cache_manager.get(cache_key) returns cached, None or a falsy
\* value when cached is JNull
HandlerCacheGet(t, cached) ==
    /\ pc[t] = "lookup"
    /\ IF CacheHit(cached)
       THEN /\ hit' = [hit EXCEPT ![t] = TRUE]
            /\ \E n \in ThumbCounts(cmd[t], cached) : Respond(t, cached, n)
            /\ UNCHANGED sent
       ELSE /\ pc' = [pc EXCEPT ![t] = "fetch"]
            /\ sent' = [sent EXCEPT ![t] = 1]
            /\ UNCHANGED <<info, hit, reply, tempVars>>
    /\ UNCHANGED <<cmd, arg, given, cacheKey, wrote>>
    /\ UNCHANGED <<cacheOn, histVars, parseVars>>
    /\ UNCHANGED <<cacheVars, fetchVars>>

\* await self.client.get_video_info / search_videos returns v
HandlerFetch(t, v) ==
    /\ pc[t] = "fetch"
    /\ IF cacheOn
       THEN /\ info' = [info EXCEPT ![t] = v]
            /\ pc' = [pc EXCEPT ![t] = "store"]
            /\ UNCHANGED <<reply, tempVars>>
       ELSE \E n \in ThumbCounts(cmd[t], v) : Respond(t, v, n)
    /\ UNCHANGED <<cmd, arg, given, cacheKey, hit, sent, wrote>>
    /\ UNCHANGED <<cacheOn, histVars, parseVars>>
    /\ UNCHANGED <<cacheVars, fetchVars>>

\* await self.cache_manager.set(cache_key, video_info / results) returns
HandlerCacheSet(t) ==
    /\ pc[t] = "store"
    /\ wrote' = [wrote EXCEPT ![t] = TRUE]
    /\ \E n \in ThumbCounts(cmd[t], info[t]) : Respond(t, info[t], n)
    /\ UNCHANGED <<cmd, arg, given, cacheKey, hit, sent>>
    /\ UNCHANGED <<cacheOn, histVars, parseVars>>
    /\ UNCHANGED <<cacheVars, fetchVars>>

\* the call the handler awaits raises exc: the except clause of the handler
HandlerError(t, exc) ==
    /\ exc \in ErrorsAt(pc[t])
    /\ pc' = [pc EXCEPT ![t] = "done"]
    /\ IF HandlerCatches(exc)
       THEN /\ reply' = [reply EXCEPT ![t] = Failure]
            /\ yields' = [yields EXCEPT ![t] = @ + 1]
       ELSE /\ reply' = [reply EXCEPT ![t] = Propagated]
            /\ UNCHANGED yields
    /\ UNCHANGED <<cmd, arg, given, cacheKey, info, hit, sent, wrote>>
    /\ UNCHANGED <<tempFiles, lastSent, chain, todo, lost>>
    /\ UNCHANGED <<cacheOn, histVars, parseVars>>
    /\ UNCHANGED <<cacheVars, fetchVars>>

\* the outcomes of _download_and_process_thumbnail: the processed file at
\* path, no file (download_thumbnail raised), or the downloaded file left
\* behind when process_image raised
ThumbOutcomes == [kind : {"ok", "nofile", "unprocessed"}, path : ThumbPaths]

\* the await in _download_and_process_thumbnail ends: the file is written,
\* processed and recorded in last_sent_files, the image is added to the
\* chain; then the next download is awaited, or the chain is yielded
HandlerThumbnail(t, o) ==
    /\ pc[t] = "thumb"
    /\ tempFiles' = IF o.kind = "nofile" THEN tempFiles ELSE tempFiles \cup {o.path}
    /\ lastSent' = IF o.kind = "ok" THEN lastSent \cup {o.path} ELSE lastSent
    /\ chain' = IF o.kind = "ok" THEN [chain EXCEPT ![t] = @ \cup {o.path}] ELSE chain
    /\ todo' = [todo EXCEPT ![t] = @ - 1]
    /\ IF todo'[t] = 0
       THEN /\ reply' = [reply EXCEPT ![t] = Chain(info[t])]
            /\ yields' = [yields EXCEPT ![t] = @ + 1]
            /\ lost' = [lost EXCEPT ![t] = chain'[t] \ tempFiles']
            /\ pc' = [pc EXCEPT ![t] = "done"]
       ELSE UNCHANGED <<reply, yields, lost, pc>>
    /\ UNCHANGED <<cmd, arg, given, cacheKey, info, hit, sent, wrote>>
    /\ UNCHANGED <<cacheOn, histVars, parseVars>>
    /\ UNCHANGED <<cacheVars, fetchVars>>

\* the handler has ended; the task is free for the next command
HandlerExit(t) ==
    /\ pc[t] = "done"
    /\ pc' = [pc EXCEPT ![t] = "idle"]
    /\ cmd' = [cmd EXCEPT ![t] = "none"]
    /\ arg' = [arg EXCEPT ![t] = <<>>]
    /\ given' = [given EXCEPT ![t] = <<>>]
    /\ cacheKey' = [cacheKey EXCEPT ![t] = NoKey]
    /\ info' = [info EXCEPT ![t] = JNull]
    /\ hit' = [hit EXCEPT ![t] = FALSE]
    /\ sent' = [sent EXCEPT ![t] = 0]
    /\ wrote' = [wrote EXCEPT ![t] = FALSE]
    /\ reply' = [reply EXCEPT ![t] = NoReply]
    /\ chain' = [chain EXCEPT ![t] = {}]
    /\ lost' = [lost EXCEPT ![t] = {}]
    /\ yields' = [yields EXCEPT ![t] = 0]
    /\ UNCHANGED <<tempFiles, lastSent, todo>>
    /\ UNCHANGED <<cacheOn, histVars, parseVars>>
    /\ UNCHANGED <<cacheVars, fetchVars>>

\* what a handler that is suspended in an await does when the await ends
HandlerResumes(t) ==
    \/ \E cached \in {JNull} \cup {v \in ReplyAnswers(cmd[t]) : Truthy(v)} :
            HandlerCacheGet(t, cached)
    \/ \E v \in ReplyAnswers(cmd[t]) : HandlerFetch(t, v)
    \/ HandlerCacheSet(t)
    \/ \E exc \in ExceptionClasses : HandlerError(t, exc)
    \/ \E o \in ThumbOutcomes : HandlerThumbnail(t, o)

NextReply ==
    \/ \E t \in Tasks, ca \in ReplyCommands : HandlerEnter(t, ca[1], ca[2])
    \/ \E t \in Tasks :
            \E cached \in {JNull} \cup {v \in ReplyAnswers(cmd[t]) : Truthy(v)} :
                HandlerCacheGet(t, cached)
    \/ \E t \in Tasks : \E v \in ReplyAnswers(cmd[t]) : HandlerFetch(t, v)
    \/ \E t \in Tasks : HandlerCacheSet(t)
    \/ \E t \in Tasks, exc \in ExceptionClasses : HandlerError(t, exc)
    \/ \E t \in Tasks, o \in ThumbOutcomes : HandlerThumbnail(t, o)
    \/ \E t \in Tasks : HandlerExit(t)

\* the event loop resumes every task whose await has ended, and every await
\* of a handler ends: the cache lock is released by its holder, the requests
\* of the client are under a total timeout
SpecReply ==
    InitReply /\ [][NextReply]_vars /\ \A t \in Tasks : WF_vars(HandlerResumes(t))

(***************************************************************************)
(* Claims about the Lookup Service, checked under Spec                     *)
(***************************************************************************)
StoredValue(k) == files[CachePath(k)].content.data[1].value

\* C1, as stated: once a lookup of an id has missed, fetched and stored the
\* record, every xv_info for the id whose cache read comes before the TTL has
\* elapsed since that store is a hit that returns that first record and makes
\* no upstream call.
C1_LaterCallsReturnFirstRecord ==
    [][\A t \in Tasks : (CacheLookup(t) /\ cmd[t] = "info") =>
        LET k == cacheKey[t] IN
        (firstAt[k] >= 0 /\ now - firstAt[k] <= ttl) =>
            /\ hit'[t]
            /\ sent'[t] = 0
            /\ info'[t] = firstVal[k][1]]_vars

\* C1, amended: every xv_info for the id whose cache read comes before the
\* TTL has elapsed since the most recent store of the id's record is a hit:
\* it returns the record stored last, replies with it, makes no upstream call
\* and leaves the cache as it is.
C1_LaterCallsServedFromCache ==
    [][\A t \in Tasks : (CacheLookup(t) /\ cmd[t] = "info") =>
        LET k == cacheKey[t] IN
        (storedAt[k] >= 0 /\ now - storedAt[k] <= ttl) =>
            /\ hit'[t]
            /\ sent'[t] = 0
            /\ info'[t] = lastVal[k][1]
            /\ pc'[t] = "done"
            /\ reply'[t] = Chain(lastVal[k][1])
            /\ files' = files]_vars

\* an xv_info was answered from the cache, with the record stored last, while
\* the other task had stored a record for the same id
C1_Witness ==
    \E t, u \in Tasks :
        /\ t # u
        /\ pc[t] = "done" /\ cmd[t] = "info" /\ hit[t] /\ sent[t] = 0
        /\ pc[u] = "done" /\ wrote[u] /\ cacheKey[u] = cacheKey[t]
        /\ storedAt[cacheKey[t]] >= 0
        /\ lastVal[cacheKey[t]] = <<info[t]>>
        /\ reply[t] = Chain(info[t])

\* C9: last write wins. While the entry of a key has not been purged for
\* expiry, its file exists and holds exactly the value of the last store for
\* the key, which is the value the task that stored last fetched.
C9_LastWriteWins ==
    \A k \in LKeys :
        lastWriter[k] # 0 =>
            /\ files[CachePath(k)].exists
            /\ files[CachePath(k)].content.form = "json"
            /\ <<StoredValue(k)>> = lastVal[k]
            /\ \A t \in Tasks :
                (pc[t] = "done" /\ wrote[t] /\ cacheKey[t] = k /\ lastWriter[k] = t)
                    => StoredValue(k) = info[t]

\* two lookups of one key both missed, both called upstream and both stored,
\* with different values; the entry holds the value of the one that stored last
C9_Witness ==
    \E t, u \in Tasks :
        /\ t # u
        /\ pc[t] = "done" /\ pc[u] = "done"
        /\ cacheKey[t] = cacheKey[u]
        /\ ~hit[t] /\ ~hit[u]
        /\ sent[t] = 1 /\ sent[u] = 1
        /\ wrote[t] /\ wrote[u]
        /\ info[t] # info[u]
        /\ lastWriter[cacheKey[t]] = u
        /\ files[CachePath(cacheKey[t])].exists
        /\ StoredValue(cacheKey[t]) = info[u]

\* C10: nothing is cached on failure. When the upstream call of a handler
\* raises, the handler ends there with the failure message, it has stored
\* nothing, and the cache files are as they were; the cache read it made
\* before changed nothing that the cache would serve for any key.
C10_NothingCachedOnFailure ==
    [][\A t \in Tasks :
        /\ (\E o \in UpstreamAnswers(cmd[t]) : ~o.ok /\ Fetch(t, o)) =>
                /\ files' = files
                /\ pc'[t] = "done"
                /\ reply'[t] = Failure
                /\ ~wrote'[t]
        /\ CacheLookup(t) =>
                \A k \in LKeys :
                    GetValue(files', k, ttl, now) = GetValue(files, k, ttl, now)]_vars

\* a handler's upstream call failed with the cache on; the entry of its key,
\* stored by the other task, is in place
C10_Witness ==
    \E t \in Tasks :
        /\ cacheOn
        /\ pc[t] = "done" /\ reply[t] = Failure
        /\ sent[t] = 1 /\ ~wrote[t]
        /\ files[CachePath(cacheKey[t])].exists

\* C11: search has the hit/miss policy of the video lookup. Once a search has
\* stored its result list, every xv_search with the same query and limit
\* whose cache read comes before the TTL has elapsed since that store is
\* answered from the cache: it is a hit that returns the stored list and makes
\* no upstream call, whatever list was stored.
C11_SearchServedFromCache ==
    [][\A t \in Tasks : (CacheLookup(t) /\ cmd[t] = "search") =>
        LET k == cacheKey[t] IN
        (storedAt[k] >= 0 /\ now - storedAt[k] <= ttl) =>
            /\ hit'[t]
            /\ sent'[t] = 0
            /\ info'[t] = lastVal[k][1]]_vars

\* x is the id y written with a leading separator
DottedFormOf(x, y) == y # <<>> /\ ~StartsWithDot(y) /\ x = <<".">> \o y

\* C12: both forms of an id denote one cache entity. Two xv_info commands, one
\* given an id and one given the same id with a leading '.', have the same
\* cache key and hand the client ids with the same primary URL; and a cache
\* read by either, made before the TTL has elapsed since the other stored its
\* record as the last store of that key, is a hit that returns that record
\* and makes no upstream call.
C12_BothFormsOneEntity ==
    [][\A t, u \in Tasks :
        /\ (cmd'[t] = "info" /\ cmd'[u] = "info" /\ DottedFormOf(given'[t], given'[u])) =>
                /\ cacheKey'[t] = cacheKey'[u]
                /\ PrimaryUrl(arg'[t]) = PrimaryUrl(arg'[u])
        /\ (/\ CacheLookup(t)
            /\ cmd[t] = "info" /\ cmd[u] = "info"
            /\ DottedFormOf(given[t], given[u]) \/ DottedFormOf(given[u], given[t])
            /\ pc[u] = "done" /\ wrote[u]
            /\ lastWriter[cacheKey[u]] = u
            /\ now - storedAt[cacheKey[u]] <= ttl) =>
                /\ hit'[t]
                /\ sent'[t] = 0
                /\ info'[t] = info[u]]_vars

\* an xv_info given '.a' was answered from the cache with the record that an
\* xv_info given 'a' had fetched and stored
C12_Witness ==
    \E t, u \in Tasks :
        /\ cmd[t] = "info" /\ cmd[u] = "info"
        /\ DottedFormOf(given[t], given[u])
        /\ pc[u] = "done" /\ wrote[u] /\ sent[u] = 1
        /\ lastWriter[cacheKey[u]] = u
        /\ pc[t] = "done" /\ hit[t] /\ sent[t] = 0
        /\ cacheKey[t] = cacheKey[u]
        /\ info[t] = info[u]
        /\ reply[t] = Chain(info[u])

(***************************************************************************)
(* Claims about the Fetch Client, checked under SpecFetch                  *)
(***************************************************************************)
IsStatus(r, st) == r.out.kind = "response" /\ r.out.status = st
Primary404 == Len(reqLog) >= 1 /\ IsStatus(reqLog[1], 404)
\* the URLs of the fallback requests issued, in the order issued
AttemptedFallbackUrls == [i \in 1..(Len(reqLog) - 1) |-> reqLog[i + 1].url]

\* C2: after a primary 404 the forms A, B, C are requested in that order, no
\* form is requested after one that answered 200, and the call then returns
\* the record built from that form's URL and page.
C2_FallbackStopsAtFirst200 ==
    Primary404 =>
        /\ \A i \in 2..Len(reqLog) : reqLog[i].url = PossibleUrls(fid)[i - 1]
        /\ \A i \in 2..Len(reqLog) :
            IsStatus(reqLog[i], 200) =>
                /\ i = Len(reqLog)
                /\ fpc = "done"
                /\ fresult = RecordResult(reqLog[i].url, reqLog[i].out.page)

\* C3: a fallback request is issued only after a primary 404; a primary
\* request that fails in transport or answers a status other than 200 and 404
\* is the only request of the call, and the call ends in an error, no record.
C3_FallbackGating ==
    /\ Len(reqLog) >= 2 => IsStatus(reqLog[1], 404)
    /\ (Len(reqLog) >= 1 /\ ~IsStatus(reqLog[1], 200) /\ ~IsStatus(reqLog[1], 404)) =>
            /\ Len(reqLog) = 1
            /\ fpc = "done"
            /\ fresult.kind \in {"requestfailed", "timeout", "httperror"}
            /\ fresult.rec = <<>>

\* the primary request timed out: one request, the call failed
C3_Witness ==
    /\ fpc = "done"
    /\ Len(reqLog) = 1
    /\ reqLog[1].out.kind = "timeout"
    /\ fresult.kind = "timeout"

\* C4: when the primary request answered 404 and no fallback form answered a
\* 200 that was read and parsed, the call fails with the not-found error,
\* whose message lists exactly the fallback URLs requested, and returns no
\* record.
C4_ExhaustedFallback ==
    (/\ fpc = "done"
     /\ Primary404
     /\ \A i \in 2..Len(reqLog) :
            ~(IsStatus(reqLog[i], 200) /\ reqLog[i].out.body = "ok"))
    => /\ fresult.kind = "notfound"
       /\ fresult.rec = <<>>
       /\ fresult.urls = AttemptedFallbackUrls
       /\ Len(fresult.urls) = 3

\* all three forms answered 404 after the primary 404
C4_Witness ==
    /\ fpc = "done"
    /\ Len(reqLog) = 4
    /\ \A i \in 1..4 : IsStatus(reqLog[i], 404)
    /\ fresult.kind = "notfound"
    /\ StartsWithDot(fid)

\* C5: the call ends in the not-found error only if every request it issued
\* was answered with an HTTP status that is not a success; a request that
\* failed in transport never ends in not-found.
C5_NotFoundOnlyOnHttpStatus ==
    fresult.kind = "notfound" =>
        \A i \in 1..Len(reqLog) :
            reqLog[i].out.kind = "response" /\ reqLog[i].out.status # 200

(***************************************************************************)
(* Claims about the Cache Store, checked under SpecCache                   *)
(***************************************************************************)

\* C6: expired entries are never served. A get(k) made when more than TTL
\* seconds have passed since the last set(k) returns None and leaves no file
\* for k, so cleanup_expired has nothing of k to count; a get of an entry
\* whose age is at most TTL leaves the file as it is. A get touches no other
\* key's file.
C6_ExpiredNeverServed ==
    [][\A c \in Callers : GetBody(c) =>
        LET k == cop[c].key
            p == CachePath(k)
        IN /\ \A q \in DOMAIN files : q # p => files'[q] = files[q]
           /\ setAt[k] >= 0 =>
                IF now - setAt[k] > ttl
                THEN /\ cres'[c].kind = "none"
                     /\ ~files'[p].exists
                     /\ p \notin ExpiredPaths(files', ttl, now)
                     /\ CleanupCount(files', ttl, now)
                          = Cardinality(ExpiredPaths(files, ttl, now) \ {p})
                ELSE files'[p] = files[p]]_vars

\* a get has found the entry older than TTL, removed its file and returned None
C6_Witness ==
    \E c \in Callers :
        /\ cpc[c] = "idle" /\ cop[c].op = "get"
        /\ cres[c].kind = "none" /\ cres[c].n = 1
        /\ setAt[cop[c].key] >= 0 /\ now - setAt[cop[c].key] > ttl
        /\ ~files[CachePath(cop[c].key)].exists

C8_Atomic ==
    /\ Cardinality({c \in Callers : InCritical(c)}) <= 1
    /\ \A c \in Callers : InCritical(c) => lock = c
    /\ \A c \in Callers :
        (cpc[c] = "cs" /\ cop[c].op = "get") =>
            LET f == files[CachePath(cop[c].key)] IN
            f.exists => f.content.form = "json"

\* a set is between opening its file and writing it while the other task,
\* whose last call was a get of the same key, is kept out
C8_Witness ==
    \E c, d \in Callers :
        /\ c # d
        /\ cpc[c] = "dump"
        /\ files[CachePath(cop[c].key)].content.form = "empty"
        /\ cpc[d] = "idle" /\ cop[d].op = "get" /\ cop[d].key = cop[c].key
        /\ cres[d].kind = "value"

\* the keys whose entry is in the store and older than the TTL
OlderThanTtl == {k \in CKeys : files[CachePath(k)].exists /\ now - setAt[k] > ttl}

\* C16: cleanup_expired removes exactly the entries older than the TTL. After
\* the call no entry older than the TTL is left, every entry not older than
\* the TTL is in place with its value, and the count returned is the number
\* of entries the call removed.
C16_PurgeExpired ==
    [][\A c \in Callers : CleanupBody(c) =>
        /\ \A k \in CKeys :
            IF k \in OlderThanTtl
            THEN ~files'[CachePath(k)].exists
            ELSE /\ files'[CachePath(k)] = files[CachePath(k)]
                 /\ GetValue(files', k, ttl, now) = GetValue(files, k, ttl, now)
        /\ cres'[c].kind = "count"
        /\ cres'[c].n = Cardinality(OlderThanTtl)
        /\ cres'[c].n = Cardinality(Glob(files)) - Cardinality(Glob(files'))]_vars

\* a cleanup has removed the one entry older than the TTL, returned 1 and
\* left the entry that is not older
C16_Witness ==
    \E c \in Callers, k, j \in CKeys :
        /\ cpc[c] = "idle" /\ cop[c].op = "cleanup"
        /\ cres[c].kind = "count" /\ cres[c].n = 1
        /\ setAt[k] >= 0 /\ now - setAt[k] > ttl /\ ~files[CachePath(k)].exists
        /\ j # k /\ files[CachePath(j)].exists /\ now - setAt[j] <= ttl

\* C18: removal. delete(k) leaves no entry for k, so that a get(k) returns
\* None, and leaves every other entry as it is; clear() leaves no entry at
\* all; neither raises, also when there is nothing to remove; an entry that
\* is absent is created by a set of its key only, and a get of an absent entry
\* returns None.
C18_Removal ==
    [][/\ \A c \in Callers : DeleteBody(c) =>
            /\ ~files'[CachePath(cop[c].key)].exists
            /\ GetValue(files', cop[c].key, ttl, now) = JNull
            /\ \A j \in CKeys \ {cop[c].key} :
                /\ files'[CachePath(j)] = files[CachePath(j)]
                /\ GetValue(files', j, ttl, now) = GetValue(files, j, ttl, now)
            /\ cres'[c].kind = "ok"
       /\ \A c \in Callers : ClearBody(c) =>
            /\ \A k \in CKeys :
                ~files'[CachePath(k)].exists /\ GetValue(files', k, ttl, now) = JNull
            /\ cres'[c].kind = "ok"
       /\ \A k \in CKeys :
            (~files[CachePath(k)].exists /\ files'[CachePath(k)].exists) =>
                \E c \in Callers : SetOpen(c) /\ cop[c].key = k
       /\ \A c \in Callers :
            (GetBody(c) /\ ~files[CachePath(cop[c].key)].exists) =>
                cres'[c].kind = "none" /\ cres'[c].value = JNull]_vars

\* an entry that was set and is not older than the TTL has been deleted; the
\* other task's get of its key returned None, the other entry is in place
C18_Witness ==
    \E c, d \in Callers, j \in CKeys :
        /\ c # d
        /\ cpc[d] = "idle" /\ cop[d].op = "delete" /\ cres[d].kind = "ok"
        /\ setAt[cop[d].key] >= 0 /\ now - setAt[cop[d].key] <= ttl
        /\ ~files[CachePath(cop[d].key)].exists
        /\ cpc[c] = "idle" /\ cop[c].op = "get" /\ cop[c].key = cop[d].key
        /\ cres[c].kind = "none" /\ cres[c].n = 0
        /\ j # cop[d].key /\ files[CachePath(j)].exists

(***************************************************************************)
(* Claims about the identifier, checked under SpecFetch                    *)
(***************************************************************************)
\* the id with one leading separator removed, if it has one
WithoutOneDot(id) == IF id # <<>> /\ id[1] = "." THEN SubSeq(id, 2, Len(id)) ELSE id

\* C13: normalization strips exactly one separator and is idempotent. The id
\* in every URL requested for an xv_info command is the id the command was
\* given with one leading '.' removed and no more, and the normalization of
\* the client leaves the id normalized by the handler as it is.
C13_StripsExactlyOne ==
    given[1] # <<>> =>
        /\ StripDot(arg[1]) = arg[1]
        /\ \A i \in 1..Len(reqLog) :
            reqLog[i].url \in
                { BaseUrl \o form \o WithoutOneDot(given[1]) :
                    form \in {<<"/video", ".">>, <<"/video", "/", ".">>, <<"/video", "/">>} }

(***************************************************************************)
(* Claims about search, checked under SpecSearch                           *)
(***************************************************************************)
\* the matching entries of a page: its video blocks, in source order
MatchingEntries(html) == SelectSeq(html, HasId)
MinOf(a, b) == IF a < b THEN a ELSE b

\* C14: search truncation. From a page with n matching entries and the limit
\* L, search_videos returns exactly min(n, L) items, and they are the first
\* min(n, L) matching entries in source order.
C14_Truncation ==
    sresult.kind = "results" =>
        LET entries == MatchingEntries(shtml)
            m == MinOf(Len(entries), slimit)
        IN /\ Len(sresult.items) = m
           /\ \A i \in 1..m : sresult.items[i] = Item(entries[i])

(***************************************************************************)
(* Claims about the Cache Store, checked under SpecStore                   *)
(***************************************************************************)
\* the file of a key holds a record as set writes it
WellFormed(f) == f.content.form = "json"

\* C15: corruption is a miss. A get never raises; a get of a key whose file
\* does not hold a record as set writes it returns None.
C15_CorruptionIsMiss ==
    [][\A c \in Callers : GetBody(c) =>
        /\ cres'[c].kind # "raise"
        /\ ~WellFormed(files[CachePath(cop[c].key)]) => cres'[c].kind = "none"]_vars

\* C17: set_ttl changes the TTL and nothing else: the entries in the store,
\* their keys, values and timestamps, and the times of their files are as
\* they were.
C17_SetTtlFrame ==
    [][\A t \in Ttls : SetTtl(t) =>
        /\ ttl' = t
        /\ Glob(files') = Glob(files)
        /\ \A p \in DOMAIN files :
            /\ files'[p].content = files[p].content
            /\ files'[p].mtime = files[p].mtime
        /\ setAt' = setAt]_vars

\* the TTL was raised from the 0 the store started with while an entry set a
\* second ago is in the store, which a get serves
C17_Witness ==
    /\ ttl = 1
    /\ now = 1
    /\ \E c \in Callers :
        /\ cpc[c] = "idle" /\ cop[c].op = "get"
        /\ cres[c].kind = "value"
        /\ setAt[cop[c].key] = 0
        /\ files[CachePath(cop[c].key)].exists
        /\ files[CachePath(cop[c].key)].mtime = 0
        /\ GetValue(files, cop[c].key, ttl, now) = cres[c].value

(***************************************************************************)
(* Claims about the HTTP session, checked under SpecSession                *)
(***************************************************************************)
\* C19: one pooled session, released by close. At any time at most one
\* session of the client is open, and a session that is open is the one
\* self.session refers to, so that a close() releases it.
C19_OneSessionReferenced ==
    /\ Cardinality(sessOpen) <= 1
    /\ \A s \in sessOpen : session = s

\* C20: the shared client is task safe. No task issues a request on a session
\* that is closed or on None: every request is sent on an open session.
C20_RequestsOnOpenSession ==
    \A t \in ClientTasks : kreq[t] \in {"none", "sent"}

(***************************************************************************)
(* More claims about the Fetch Client, checked under SpecFetch             *)
(***************************************************************************)
\* C24: the fallback forms are alternatives to the primary request. Within
\* one get_video_info call no URL is requested twice, and the call issues at
\* most four requests.
C24_NoUrlRequestedTwice ==
    /\ Len(reqLog) <= 4
    /\ \A i, j \in 1..Len(reqLog) : i # j => reqLog[i].url # reqLog[j].url

(***************************************************************************)
(* More claims about the store, checked under SpecStore                    *)
(***************************************************************************)
\* C26: expiry is judged against the TTL in force at the time of the get. A
\* get of an entry whose file holds what set wrote serves it exactly when the
\* time since the last set of its key is at most the current TTL, whatever
\* the TTL was when it was set; otherwise it answers None and removes the
\* file. The age counts from the last set of the key.
C26_JudgedAgainstCurrentTtl ==
    [][\A c \in Callers : GetBody(c) =>
        LET k == cop[c].key
            f == files[CachePath(k)]
        IN (f.exists /\ WellFormed(f)) =>
            /\ setAt[k] >= 0
            /\ f.mtime = setAt[k]
            /\ IF now - setAt[k] <= ttl
               THEN /\ cres'[c].kind = "value"
                    /\ files'[CachePath(k)] = f
               ELSE /\ cres'[c].kind = "none"
                    /\ ~files'[CachePath(k)].exists]_vars

\* two entries were set at time 0 under a TTL of 0; a second later a get
\* found one of them too old and removed it, the TTL was raised to 1, and a
\* get served the other one, as old as the first
C26_Witness ==
    /\ ttl = 1
    /\ now = 1
    /\ \E c, d \in Callers :
        /\ c # d
        /\ cpc[c] = "idle" /\ cop[c].op = "get"
        /\ cpc[d] = "idle" /\ cop[d].op = "get"
        /\ cop[c].key # cop[d].key
        /\ setAt[cop[c].key] = 0 /\ setAt[cop[d].key] = 0
        /\ cres[c] = Returned("none", JNull, 1)
        /\ ~files[CachePath(cop[c].key)].exists
        /\ cres[d].kind = "value"
        /\ files[CachePath(cop[d].key)].mtime = 0

(***************************************************************************)
(* Claims about the parsers, checked under SpecParse                       *)
(***************************************************************************)
\* the fields of a record that are text and are read from the page
TextFields == PageFields \ {"tags"}

\* C22: per-field degradation. For every set of fields missing from the page
\* _parse_video_info returns a record in which every field the page has holds
\* its content and every missing one holds the unknown sentinel, and the text
\* _format_video_info makes of the record shows the sentinel for it.
C22_MissingFieldsAreUnknown ==
    /\ ppc \in {"record", "text"} =>
        \A f \in TextFields :
            pout.info[f] = IF f \in phtml.page THEN Strip(RawOf(f)) ELSE Unknown
    /\ ppc = "text" =>
        \A f \in ShownFields :
            pout.lines[f] = IF f \in phtml.page THEN Strip(RawOf(f)) ELSE Unknown

\* the four sources of a title, in the order of the claim, empty when absent:
\* the anchor's title attribute, the container's title attribute, the text of
\* the anchor inside the container, the text of the container
TitleSources(div) ==
    << IF div.link # <<>> THEN TitleAttr(div.link[1]) ELSE <<>>,
       IF div.p # <<>> THEN TitleAttr(div.p[1]) ELSE <<>>,
       IF div.p # <<>> /\ div.p[1].a # <<>> THEN Strip(div.p[1].a[1]) ELSE <<>>,
       IF div.p # <<>> THEN GetTextStripped(div.p[1]) ELSE <<>> >>

\* C23: the title of a search item is the first of its four sources that is
\* not empty, in the order above, and is empty only if all four are.
C23_FirstNonEmptyTitle ==
    ppc = "item" =>
        LET S == TitleSources(phtml.div)
            ne == {i \in 1..4 : S[i] # <<>>}
        IN IF ne = {} THEN pout.title = <<>>
           ELSE \E i \in ne : /\ \A j \in ne : i <= j
                              /\ pout.title = S[i]

\* a div whose anchor has an empty title attribute, whose container has no
\* title attribute and an anchor holding whitespace only, got the text of the
\* container as its title
C23_Witness ==
    /\ ppc = "item"
    /\ phtml.div.link = << [title |-> << <<>> >>] >>
    /\ phtml.div.p # <<>>
    /\ phtml.div.p[1].title = <<>>
    /\ phtml.div.p[1].a = << <<Blank>> >>
    /\ pout.title = <<"t4">>

(***************************************************************************)
(* Claims about the replies of the handlers, checked under SpecReply       *)
(***************************************************************************)
\* C25: temporary thumbnail files are not deleted under a request that still
\* needs them. The images a request has added to its chain exist in temp_dir
\* while it downloads the others, and exist when it yields the chain.
C25_ThumbnailsExistAtYield ==
    \A t \in Tasks :
        /\ pc[t] = "thumb" => chain[t] \subseteq tempFiles
        /\ (pc[t] = "done" /\ reply[t].kind = "chain") => lost[t] = {}

\* the state of a request as its handler holds it
RequestState(t) ==
    <<pc[t], cmd[t], arg[t], cacheKey[t], info[t], hit[t], sent[t], wrote[t],
      reply[t], chain[t], todo[t], yields[t]>>

\* C21: request failure isolation. Every xv_info / xv_search invocation ends,
\* having yielded exactly one reply: the usage text, the chain, the not-found
\* text or the failure text. An exception raised by the cache or by the
\* client (its parsers included) becomes the failure reply and does not leave
\* the handler, and it changes nothing of the other requests in flight nor
\* of the temporary files.
C21_OneReplyNoEscape ==
    /\ [](\A t \in Tasks :
            /\ reply[t].kind # "raised"
            /\ yields[t] = IF pc[t] = "done" THEN 1 ELSE 0
            /\ pc[t] = "done" => reply[t].kind \in {"usage", "chain", "notfound", "failure"}
            /\ pc[t] # "done" => reply[t] = NoReply)
    /\ [][\A t \in Tasks, exc \in ExceptionClasses : HandlerError(t, exc) =>
            /\ pc'[t] = "done"
            /\ reply'[t] = Failure
            /\ \A u \in Tasks \ {t} : RequestState(u)' = RequestState(u)
            /\ tempFiles' = tempFiles
            /\ lastSent' = lastSent]_vars
    /\ \A t \in Tasks : (pc[t] # "idle") ~> (pc[t] = "done")

\* a request whose cache read raised has answered with the failure text,
\* before any upstream call, while another request was downloading its
\* thumbnails, which then yielded its chain with its image in place
C21_Witness ==
    \E t, u \in Tasks :
        /\ t # u
        /\ pc[t] = "done" /\ reply[t] = Failure /\ sent[t] = 0 /\ cacheOn
        /\ pc[u] = "done" /\ reply[u].kind = "chain"
        /\ chain[u] # {} /\ lost[u] = {}

====
